---- MODULE Spec2Model ----
(***************************************************************************)
(* Model of the receipt upload pipeline of snapspend-lite:                 *)
(*   backend/receipts/services.py   extract_receipt_data, normalize_currency*)
(*   backend/receipts/views.py      ReceiptUploadView.post, ReceiptViewSet  *)
(*   backend/receipts/models.py     Receipt, ReceiptItem                    *)
(*   backend/receipts/serializers.py ReceiptSerializer                      *)
(*                                                                         *)
(* Values.  A JSON / Python value is a tagged record:                      *)
(*   None            [null |-> TRUE]        (JSON null, Python None)       *)
(*   Str(s)          [str |-> s]            s a sequence of characters     *)
(*   Num(n)          [num |-> n]            amounts in minor units         *)
(*   List(q)         [list |-> q]                                          *)
(*   Dict(d)         [dict |-> d]           d a function from keys         *)
(* A dict is a function whose DOMAIN is the set of keys present, so that a *)
(* missing key and a null value are different inputs, as in the code.      *)
(***************************************************************************)
EXTENDS Integers, Sequences, FiniteSets, TLC

VARIABLES
    receipts_db,        \* table Receipt: sequence of rows, row k has id k
    items_db,           \* table ReceiptItem: sequence of rows, in creation order
    pc,                 \* position of ReceiptUploadView.post
    files,              \* request.FILES of the upload being handled: upload names
    idx,                \* 1-based position of the for loop over files
    receipt,            \* the loop's in-memory Receipt instance
    created_receipts,   \* post's local list created_receipts
    errors,             \* post's local list errors
    response,           \* the Response post returned
    replies,            \* what the vision model answered, one per call made
    call_log,           \* the calls of extract_receipt_data: the id of the row
                        \* whose stored file (receipt.file.path) was passed
    rows_before,        \* Receipt rows that existed when the upload began
    normalized,         \* ids of the rows an upload mapped and saved (line 93)
    cur_in,             \* argument of a direct normalize_currency call
    cur_out             \* its return value

vars == <<receipts_db, items_db, pc, files, idx, receipt, created_receipts,
          errors, response, replies, call_log, rows_before, normalized,
          cur_in, cur_out>>

---------------------------------------------------------------------------
(* Bounds of the model *)

MaxFiles == 3
MaxRows == 3
MaxEditRows == 2
MaxCurLen == 3

---------------------------------------------------------------------------
(* Python values *)

None == [null |-> TRUE]

Str(s) == [str |-> s]

Num(n) == [num |-> n]

List(q) == [list |-> q]

Dict(d) == [dict |-> d]

IsStr(v) == DOMAIN v = {"str"}

IsNum(v) == DOMAIN v = {"num"}

IsList(v) == DOMAIN v = {"list"}

IsDict(v) == DOMAIN v = {"dict"}

\* Python truthiness: None, "", 0, [] and {} are falsy.
Truthy(v) ==
    /\ v # None
    /\ IsStr(v) => v.str # <<>>
    /\ IsNum(v) => v.num # 0
    /\ IsList(v) => v.list # <<>>
    /\ IsDict(v) => DOMAIN v.dict # {}

\* dict.get(key): None when the key is missing.
Get(d, key) == IF key \in DOMAIN d THEN d[key] ELSE None

\* d[key] = v
SetKey(d, key, v) == [k \in DOMAIN d \cup {key} |-> IF k = key THEN v ELSE d[k]]

\* a or b
Or(a, b) == IF Truthy(a) THEN a ELSE b

---------------------------------------------------------------------------
(* Characters *)

Lowers == <<"a","b","c","d","e","f","g","h","i","j","k","l","m",
            "n","o","p","q","r","s","t","u","v","w","x","y","z">>

Uppers == <<"A","B","C","D","E","F","G","H","I","J","K","L","M",
            "N","O","P","Q","R","S","T","U","V","W","X","Y","Z">>

Whitespace == {" ", "\t", "\n"}

UpperChar(c) ==
    IF \E k \in 1..Len(Lowers) : Lowers[k] = c
    THEN Uppers[CHOOSE k \in 1..Len(Lowers) : Lowers[k] = c]
    ELSE c

\* str.upper()
Upper(s) == [k \in 1..Len(s) |-> UpperChar(s[k])]

\* str.strip(): drops leading and trailing whitespace
Strip(s) ==
    LET keep == {k \in 1..Len(s) : s[k] \notin Whitespace}
    IN IF keep = {} THEN <<>>
       ELSE LET lo == CHOOSE k \in keep : \A j \in keep : k <= j
                hi == CHOOSE k \in keep : \A j \in keep : j <= k
            IN SubSeq(s, lo, hi)

---------------------------------------------------------------------------
(* services.py: normalize_currency *)

PHP == <<"P","H","P">>

USD == <<"U","S","D">>

EUR == <<"E","U","R">>

JPY == <<"J","P","Y">>

GBP == <<"G","B","P">>

allowed == {PHP, USD, EUR, JPY, GBP}

\* the "common mistakes" set; "U+20B1" stands for the peso sign character
mistakes == { <<"P","E","S","O">>, <<"P","H">>, <<"P","H","P",".">>,
              <<"P","H","P","H">>, <<"N","V">>, <<"P","H","P","$">>,
              <<"U+20B1">> }

\* mutant: the trim is forgotten
normalize_currency_nostrip(c) ==
    IF ~Truthy(c) THEN Str(PHP)
    ELSE LET u == Upper(c.str)
         IN IF u \in mistakes THEN Str(PHP)
            ELSE IF u \notin allowed THEN Str(PHP)
            ELSE Str(u)

normalize_currency(c) ==
    IF ~Truthy(c) THEN Str(PHP)
    ELSE LET u == Strip(Upper(c.str))
         IN IF u \in mistakes THEN Str(PHP)
            ELSE IF u \notin allowed THEN Str(PHP)
            ELSE Str(u)

---------------------------------------------------------------------------
(* datetime.fromisoformat and datetime.strptime(_, "%Y-%m-%d") on strings *)

Digits == <<"0","1","2","3","4","5","6","7","8","9">>

IsDigit(c) == \E k \in 1..10 : Digits[k] = c

DigitVal(c) == (CHOOSE k \in 1..10 : Digits[k] = c) - 1

AllDigits(s) == \A k \in 1..Len(s) : IsDigit(s[k])

RECURSIVE IntOf(_)
IntOf(s) == IF s = <<>> THEN 0
            ELSE 10 * IntOf(SubSeq(s, 1, Len(s) - 1)) + DigitVal(s[Len(s)])

IsLeap(y) == (y % 4 = 0 /\ y % 100 # 0) \/ y % 400 = 0

DaysIn(y, m) ==
    IF m = 2 THEN (IF IsLeap(y) THEN 29 ELSE 28)
    ELSE IF m \in {4, 6, 9, 11} THEN 30 ELSE 31

ValidDate(y, m, d) == y \in 1..9999 /\ m \in 1..12 /\ d \in 1..DaysIn(y, m)

NoDate == [ok |-> FALSE]

Date(y, m, d) == [ok |-> TRUE, y |-> y, m |-> m, d |-> d]

\* the time part after the separator: HH, HH:MM or HH:MM:SS
IsoTimeOk(t) ==
    /\ Len(t) \in {2, 5, 8}
    /\ AllDigits(SubSeq(t, 1, 2)) /\ IntOf(SubSeq(t, 1, 2)) \in 0..23
    /\ Len(t) >= 5 =>
         t[3] = ":" /\ AllDigits(SubSeq(t, 4, 5)) /\ IntOf(SubSeq(t, 4, 5)) \in 0..59
    /\ Len(t) = 8 =>
         t[6] = ":" /\ AllDigits(SubSeq(t, 7, 8)) /\ IntOf(SubSeq(t, 7, 8)) \in 0..59

\* datetime.fromisoformat(s).date() for a string s; NoDate stands for ValueError
fromisoformat(s) ==
    IF /\ Len(s) >= 10
       /\ AllDigits(SubSeq(s, 1, 4)) /\ s[5] = "-"
       /\ AllDigits(SubSeq(s, 6, 7)) /\ s[8] = "-"
       /\ AllDigits(SubSeq(s, 9, 10))
       /\ ValidDate(IntOf(SubSeq(s, 1, 4)), IntOf(SubSeq(s, 6, 7)), IntOf(SubSeq(s, 9, 10)))
       /\ Len(s) > 10 => Len(s) >= 13 /\ IsoTimeOk(SubSeq(s, 12, Len(s)))
    THEN Date(IntOf(SubSeq(s, 1, 4)), IntOf(SubSeq(s, 6, 7)), IntOf(SubSeq(s, 9, 10)))
    ELSE NoDate

\* datetime.strptime(s, "%Y-%m-%d").date(); NoDate stands for ValueError.
\* %Y is four digits; %m and %d are one or two digits.
strptime(s) ==
    LET dash2 == {k \in 7..8 : k < Len(s) /\ s[k] = "-"}
    IN IF /\ Len(s) >= 8
          /\ AllDigits(SubSeq(s, 1, 4)) /\ s[5] = "-"
          /\ dash2 # {}
       THEN LET k == CHOOSE j \in dash2 : \A j2 \in dash2 : j <= j2
                ms == SubSeq(s, 6, k - 1)
                ds == SubSeq(s, k + 1, Len(s))
            IN IF /\ Len(ms) \in 1..2 /\ AllDigits(ms)
                  /\ Len(ds) \in 1..2 /\ AllDigits(ds)
                  /\ ValidDate(IntOf(SubSeq(s, 1, 4)), IntOf(ms), IntOf(ds))
               THEN Date(IntOf(SubSeq(s, 1, 4)), IntOf(ms), IntOf(ds))
               ELSE NoDate
       ELSE NoDate

---------------------------------------------------------------------------
(* models.py: Receipt and ReceiptItem *)

\* Receipt.objects.create(file=upload): every other field takes its default
NewReceipt(id, upload) ==
    [id |-> id, file |-> upload, store_name |-> None, date |-> None,
     category |-> Str(<<>>), total_amount |-> None, tax_amount |-> Num(0),
     currency |-> Str(PHP)]

\* ReceiptItem.objects.create(receipt=..., description=..., ...)
NewItem(rid, description, quantity, unit_price, line_total) ==
    [receipt |-> rid, description |-> description, quantity |-> quantity,
     unit_price |-> unit_price, line_total |-> line_total]

\* receipt.items.all(): the item rows of one receipt, in creation order
ItemsOf(db, rid) == SelectSeq(db, LAMBDA it : it.receipt = rid)

---------------------------------------------------------------------------
(* services.py: extract_receipt_data *)

Raise(name) == [ok |-> FALSE, exc |-> name]

\* the exception object caught by "except Exception as e"
Exc(name) == [exception |-> name]

\* A reply of the vision model is [fail |-> e] when the request or the JSON
\* decoding raised e, and [content |-> v] when it decoded to the value v.
extract_receipt_data(reply) ==
    IF "fail" \in DOMAIN reply THEN Raise(reply.fail)
    ELSE IF ~IsDict(reply.content) THEN Raise("AttributeError")
    ELSE LET data == reply.content.dict
         IN [ok |-> TRUE,
             data |-> SetKey(data, "currency", normalize_currency(Get(data, "currency")))]

---------------------------------------------------------------------------
(* views.py: ReceiptUploadView.post, the body of the try block *)

Category(data) == Or(Get(data, "category"), Str(<<>>))

\* mutant: the value is copied without its default
TaxAmount_copied(data) == Get(data, "tax_amount")

TaxAmount(data) == Or(Get(data, "tax_amount"), Num(0))

Currency(data) == Or(Get(data, "currency"), Str(USD))

\* lines 75-79: the top-level fields
MapFields(r, data) ==
    [r EXCEPT !.store_name = Get(data, "store_name"),
              !.category = Category(data),
              !.total_amount = Get(data, "total_amount"),
              !.tax_amount = TaxAmount(data),
              !.currency = Currency(data)]

\* lines 81-91: the date. Only ValueError is caught, and fromisoformat and
\* strptime raise TypeError on an argument that is not a string.
MapDate(r, data) ==
    LET raw_date == Get(data, "date")
    IN IF ~Truthy(raw_date) THEN [ok |-> TRUE, receipt |-> r]
       ELSE IF ~IsStr(raw_date) THEN Raise("TypeError")
       ELSE IF fromisoformat(raw_date.str).ok
            THEN [ok |-> TRUE, receipt |-> [r EXCEPT !.date = fromisoformat(raw_date.str)]]
       ELSE IF strptime(raw_date.str).ok
            THEN [ok |-> TRUE, receipt |-> [r EXCEPT !.date = strptime(raw_date.str)]]
       ELSE [ok |-> TRUE, receipt |-> [r EXCEPT !.date = None]]

Quantity(item) == Or(Get(item, "quantity"), Num(1))

UnitPrice(item) ==
    IF Get(item, "unit_price") # None THEN Get(item, "unit_price") ELSE Num(0)

LineTotal(item) ==
    IF Get(item, "line_total") # None THEN Get(item, "line_total") ELSE Num(0)

\* lines 97-112: the loop over items, from position k, having created rows.
\* item.get raises AttributeError when the item is not a dict.
RECURSIVE CreateItems(_, _, _, _)
CreateItems(items, k, rid, rows) ==
    IF k > Len(items) THEN [ok |-> TRUE, rows |-> rows]
    ELSE IF ~IsDict(items[k]) THEN [ok |-> FALSE, exc |-> "AttributeError", rows |-> rows]
    ELSE LET item == items[k].dict
             description == Get(item, "description")
         IN IF ~Truthy(description) THEN CreateItems(items, k + 1, rid, rows)
            ELSE CreateItems(items, k + 1, rid,
                     Append(rows, NewItem(rid, description, Quantity(item),
                                          UnitPrice(item), LineTotal(item))))

\* line 96 and the loop: items = data.get("items") or []
MapItems(rid, data) ==
    LET items == Or(Get(data, "items"), List(<<>>))
    IN IF IsList(items) THEN CreateItems(items.list, 1, rid, <<>>)
       ELSE IF IsNum(items) THEN [ok |-> FALSE, exc |-> "TypeError", rows |-> <<>>]
       ELSE [ok |-> FALSE, exc |-> "AttributeError", rows |-> <<>>]

\* lines 70-112: what one pass through the try block does for the instance r
\* and the model's reply: the instance afterwards, whether receipt.save() was
\* reached, the item rows created, and the exception raised, if any.
TryBlock(r, reply) ==
    LET ex == extract_receipt_data(reply)
    IN IF ~ex.ok THEN [receipt |-> r, saved |-> FALSE, rows |-> <<>>, exc |-> Exc(ex.exc)]
       ELSE LET r1 == MapFields(r, ex.data)
                dt == MapDate(r1, ex.data)
            IN IF ~dt.ok
               THEN [receipt |-> r1, saved |-> FALSE, rows |-> <<>>, exc |-> Exc(dt.exc)]
               ELSE LET it == MapItems(r.id, ex.data)
                    IN [receipt |-> dt.receipt, saved |-> TRUE, rows |-> it.rows,
                        exc |-> IF it.ok THEN None ELSE Exc(it.exc)]

\* mutant: the descriptor carries the loop position instead of the row's id
ErrorDescriptor_position(upload, e, r) == [file |-> upload, error |-> e, receipt_id |-> idx]

\* lines 116-122: the error descriptor
ErrorDescriptor(upload, e, r) == [file |-> upload, error |-> e, receipt_id |-> r.id]

\* lines 114-122: errors after the try statement
ErrorsAfter(errs, upload, res) ==
    IF res.exc = None THEN errs
    ELSE Append(errs, ErrorDescriptor(upload, res.exc, res.receipt))

\* mutant: the append sits inside the try block, after the item loop
CreatedAfter_in_try(created, res) ==
    IF res.exc = None THEN Append(created, res.receipt) ELSE created

\* line 124: created_receipts.append(receipt), outside the try statement
CreatedAfter(created, res) == Append(created, res.receipt)

\* mutant: an exception leaves the loop
NextIdx_abort(i, res) == IF res.exc = None THEN i + 1 ELSE Len(files) + 1

\* line 64: the for loop moves to the next file whatever happened to this one
NextIdx(i, res) == i + 1

\* serializers.py: ReceiptSerializer, the fields the claims read
Serialize(r, idb) ==
    [id |-> r.id, store_name |-> r.store_name, date |-> r.date,
     category |-> r.category, total_amount |-> r.total_amount,
     tax_amount |-> r.tax_amount, currency |-> r.currency,
     items |-> ItemsOf(idb, r.id), file |-> r.file]

\* lines 126-132
ResponseData(created, errs, idb) ==
    IF errs # <<>>
    THEN [status |-> 201,
          receipts |-> [k \in 1..Len(created) |-> Serialize(created[k], idb)],
          errors |-> errs]
    ELSE [status |-> 201,
          receipts |-> [k \in 1..Len(created) |-> Serialize(created[k], idb)]]

---------------------------------------------------------------------------
(* Inputs: upload names, replies of the vision model, edits *)

FileNames == <<"r1.jpg", "r2.jpg", "r3.jpg", "r4.jpg", "r5.jpg", "r6.jpg">>

\* up to MaxFiles files with different names, or the same file twice
Batches ==
    {[k \in 1..n |-> FileNames[k]] : n \in 1..MaxFiles}
    \cup {<<FileNames[1], FileNames[1]>>}

Coffee == Str(<<"C","o","f","f","e","e">>)

Tea == Str(<<"T","e","a">>)

IsoDateTime == Str(<<"2","0","2","4","-","0","3","-","1","5","T","0","0",":","0","0",":","0","0">>)

IsoDate == Str(<<"2","0","2","4","-","0","3","-","1","5">>)

ShortDate == Str(<<"2","0","2","4","-","3","-","1","5">>)

BadDay == Str(<<"2","0","2","4","-","0","2","-","3","0">>)

March15 == Str(<<"M","a","r","c","h"," ","1","5">>)

CoffeeNulls == Dict([description |-> Coffee, quantity |-> None,
                     unit_price |-> None, line_total |-> None])

CoffeeOnly == Dict([description |-> Coffee])

TeaZeros == Dict([description |-> Tea, quantity |-> Num(0),
                  unit_price |-> Num(0), line_total |-> Num(0)])

TeaTwo == Dict([description |-> Tea, quantity |-> Num(2),
                unit_price |-> Num(150), line_total |-> Num(300)])

NoDescription == Dict([description |-> None, quantity |-> Num(1),
                       unit_price |-> Num(20), line_total |-> Num(20)])

EmptyDescription == Dict([description |-> Str(<<>>), quantity |-> Num(1),
                          unit_price |-> Num(20), line_total |-> Num(20)])

\* What the model may answer: JSON objects with fields missing, null,
\* unparseable or of another type than the prompt asks for. Amounts are JSON
\* numbers (in minor units) or null, currencies are strings or null, and the
\* database accepts every row: the storage of a value is not modelled beyond
\* the field defaults of models.py. Requests are handled one at a time.
Payloads ==
    { [store_name |-> Str(<<"7","E">>), category |-> Str(<<"F","o","o","d">>),
       total_amount |-> Num(500), tax_amount |-> Num(60),
       currency |-> Str(<<"u","s","d">>), date |-> IsoDateTime,
       items |-> List(<<CoffeeNulls, EmptyDescription, TeaTwo>>)],
      [store_name |-> None, category |-> None, total_amount |-> None,
       tax_amount |-> None, currency |-> None, date |-> None, items |-> None],
      [currency |-> Str(<<"X","Y","Z">>), date |-> IsoDate, tax_amount |-> Num(0),
       items |-> List(<<TeaZeros, NoDescription, CoffeeOnly>>)],
      [currency |-> Str(<<" ","p","h","p"," ">>), date |-> March15,
       items |-> List(<<>>)],
      [currency |-> Str(<<"G","b","p">>), date |-> ShortDate,
       items |-> List(<<NoDescription>>)],
      [date |-> BadDay, total_amount |-> Num(0), currency |-> Str(<<"P","E","S","O">>)],
      [date |-> Str(<<>>), tax_amount |-> Num(60), items |-> List(<<TeaTwo, CoffeeOnly>>)],
      [date |-> Num(20240315), items |-> List(<<CoffeeOnly>>)],
      [date |-> IsoDate,
       items |-> List(<<CoffeeOnly, Str(<<"T","o","t","a","l">>), TeaTwo>>)] }

Failures == {"APIError"}

Replies ==
    {[fail |-> e] : e \in Failures}
    \cup {[content |-> Dict(d)] : d \in Payloads}
    \cup {[content |-> List(<<>>)]}

\* currencies a client may send in PATCH /api/receipts/<id>/
PatchCurrencies == { <<"X","Y","Z">>, <<"E","U","R">>, <<>>, <<"P","E","S","O">> }

---------------------------------------------------------------------------
(* ReceiptViewSet: partial_update through ReceiptSerializer *)

\* models.py line 23, the one constraint the serializer takes from the model
CurrencyMaxLength == 3

\* the serializer's CharField: trims, rejects blank and over-long values
ValidCurrencyField(c) == Strip(c) # <<>> /\ Len(Strip(c)) <= CurrencyMaxLength

---------------------------------------------------------------------------
(* The state machine *)

NoReceipt == [id |-> 0]

NoResponse == [status |-> 0]

Init ==
    /\ receipts_db = <<>>
    /\ items_db = <<>>
    /\ pc = "idle"
    /\ files = <<>>
    /\ idx = 0
    /\ receipt = NoReceipt
    /\ created_receipts = <<>>
    /\ errors = <<>>
    /\ response = NoResponse
    /\ replies = <<>>
    /\ call_log = <<>>
    /\ rows_before = 0
    /\ normalized = {}
    /\ cur_in = None
    /\ cur_out = None

\* lines 47-59: no file in the request
PostNoFiles ==
    /\ pc = "idle"
    /\ pc' = "responded"
    /\ response' = [status |-> 400]
    /\ files' = <<>>
    /\ UNCHANGED <<receipts_db, items_db, idx, receipt, created_receipts, errors,
                   replies, call_log, rows_before, normalized, cur_in, cur_out>>

\* lines 47-62: a request with files enters the loop
PostStart(fs, cap) ==
    /\ pc = "idle"
    /\ Len(receipts_db) + Len(fs) <= cap
    /\ rows_before' = Len(receipts_db)
    /\ files' = fs
    /\ idx' = 1
    /\ created_receipts' = <<>>
    /\ errors' = <<>>
    /\ pc' = "loop"
    /\ UNCHANGED <<receipts_db, items_db, receipt, response, replies, call_log,
                   normalized, cur_in, cur_out>>

\* lines 66-68: the row is created before anything is extracted
CreateRow ==
    /\ pc = "loop"
    /\ idx <= Len(files)
    /\ LET r == NewReceipt(Len(receipts_db) + 1, files[idx])
       IN /\ receipts_db' = Append(receipts_db, r)
          /\ receipt' = r
    /\ pc' = "try"
    /\ UNCHANGED <<items_db, files, idx, created_receipts, errors, response,
                   replies, call_log, rows_before, normalized, cur_in, cur_out>>

\* lines 70-124: the try statement and the append, for the model's reply
TryExcept(reply) ==
    /\ pc = "try"
    /\ LET res == TryBlock(receipt, reply)
       IN /\ receipts_db' = IF res.saved
                            THEN [receipts_db EXCEPT ![receipt.id] = res.receipt]
                            ELSE receipts_db
          /\ items_db' = items_db \o res.rows
          /\ receipt' = res.receipt
          /\ errors' = ErrorsAfter(errors, files[idx], res)
          /\ created_receipts' = CreatedAfter(created_receipts, res)
          /\ idx' = NextIdx(idx, res)
          /\ normalized' = IF res.saved THEN normalized \cup {receipt.id}
                           ELSE normalized
    /\ replies' = Append(replies, reply)
    /\ call_log' = Append(call_log, receipt.id)
    /\ pc' = "loop"
    /\ UNCHANGED <<files, response, rows_before, cur_in, cur_out>>

\* lines 126-132
PostRespond ==
    /\ pc = "loop"
    /\ idx > Len(files)
    /\ response' = ResponseData(created_receipts, errors, items_db)
    /\ pc' = "responded"
    /\ UNCHANGED <<receipts_db, items_db, files, idx, receipt, created_receipts,
                   errors, replies, call_log, rows_before, normalized, cur_in,
                   cur_out>>

\* the request is over: its locals are gone
PostReturn ==
    /\ pc = "responded"
    /\ pc' = "idle"
    /\ files' = <<>>
    /\ idx' = 0
    /\ receipt' = NoReceipt
    /\ created_receipts' = <<>>
    /\ errors' = <<>>
    /\ response' = NoResponse
    /\ replies' = <<>>
    /\ call_log' = <<>>
    /\ rows_before' = 0
    /\ UNCHANGED <<receipts_db, items_db, normalized, cur_in, cur_out>>

\* PATCH /api/receipts/<id>/ {"currency": c}
PatchCurrency(id, c) ==
    /\ pc = "idle"
    /\ id \in 1..Len(receipts_db)
    /\ ValidCurrencyField(c)
    /\ receipts_db' = [receipts_db EXCEPT ![id].currency = Str(Strip(c))]
    /\ UNCHANGED <<items_db, pc, files, idx, receipt, created_receipts, errors,
                   response, replies, call_log, rows_before, normalized, cur_in,
                   cur_out>>

\* uploads, one request at a time
Next ==
    \/ PostNoFiles
    \/ \E fs \in Batches : PostStart(fs, MaxRows)
    \/ CreateRow
    \/ \E reply \in Replies : TryExcept(reply)
    \/ PostRespond
    \/ PostReturn

Spec == Init /\ [][Next]_vars

\* uploads and corrective edits of the stored receipts
NextEdit ==
    \/ PostNoFiles
    \/ \E fs \in Batches : PostStart(fs, MaxEditRows)
    \/ CreateRow
    \/ \E reply \in Replies : TryExcept(reply)
    \/ PostRespond
    \/ PostReturn
    \/ \E id \in 1..MaxEditRows, c \in PatchCurrencies : PatchCurrency(id, c)

SpecEdit == Init /\ [][NextEdit]_vars

---------------------------------------------------------------------------
(* normalize_currency called on its own, over every short string *)

CurAlphabet == {"p", "h", "P", "H", "u", "S", "d", " ", "."}

CurrencyExamples ==
    { <<>>, <<"p","e","s","o">>, <<" ","p","h","p"," ">>, <<"P","H","P","H">>,
      <<"X","Y","Z">>, <<"u","s","d">>, <<"E","U","R">>, <<"G","b","p">>,
      <<"j","p","y">>, <<"\t","u","s","d","\n">>, <<" ","E","u","r">>,
      <<"U+20B1">>, <<"P","H","P","$">>, <<"n","v">>, <<"U","S","D","T">> }

CurrencyInputs ==
    {None}
    \cup {Str(s) : s \in CurrencyExamples}
    \cup {Str(s) : s \in UNION {[1..n -> CurAlphabet] : n \in 0..MaxCurLen}}

InitCurrency ==
    /\ Init!1 /\ Init!2 /\ Init!3 /\ Init!4 /\ Init!5 /\ Init!6 /\ Init!7
    /\ Init!8 /\ Init!9 /\ Init!10 /\ Init!11 /\ Init!12 /\ Init!13
    /\ cur_in \in CurrencyInputs
    /\ cur_out = None

\* data["currency"] = normalize_currency(data.get("currency"))
NormalizeCall ==
    /\ pc = "idle"
    /\ cur_out' = normalize_currency(cur_in)
    /\ pc' = "returned"
    /\ UNCHANGED <<receipts_db, items_db, files, idx, receipt, created_receipts,
                   errors, response, replies, call_log, rows_before, normalized,
                   cur_in>>

NextCurrency == NormalizeCall

SpecCurrency == InitCurrency /\ [][NextCurrency]_vars

---------------------------------------------------------------------------
(* Vocabulary of the properties.  File j of the upload being handled is     *)
(* files[j]; the model answered replies[j] for it; its row has id RowId(j). *)

Processed == 1..Len(replies)

RowId(j) == rows_before + j

\* the extraction call did not return: the request or the decoding raised,
\* or the decoded content was not a JSON object
ExtractionFailed(reply) == "fail" \in DOMAIN reply \/ ~IsDict(reply.content)

RawData(reply) == reply.content.dict

Errs(resp) == IF "errors" \in DOMAIN resp THEN resp.errors ELSE <<>>

ErrorsFor(errs, j) == {n \in 1..Len(errs) : errs[n].receipt_id = RowId(j)}

Uploaded == pc = "responded" /\ response.status = 201

AllowedCodes == {Str(a) : a \in allowed}

\* a receipt without its id, an item row without its receipt
Fields(r) == [k \in DOMAIN r \ {"id"} |-> r[k]]

ItemFields(rows) == [n \in 1..Len(rows) |-> [k \in DOMAIN rows[n] \ {"receipt"} |-> rows[n][k]]]

\* the raw items of a payload, and those with a description that is neither
\* null nor empty
RawItems(data) == IF IsList(Get(data, "items")) THEN Get(data, "items").list ELSE <<>>

HasDescription(it) ==
    IsDict(it) /\ Get(it.dict, "description") # None /\ Get(it.dict, "description") # Str(<<>>)

KeptItems(data) == SelectSeq(RawItems(data), HasDescription)

---------------------------------------------------------------------------
(* C1 *)

\* C1 as stated: an upload of N files of which k extractions fail answers with
\* exactly N-k records and exactly k error descriptors, one naming each failed
\* file, and no file is both a record and an error descriptor.
C1_Original ==
    Uploaded =>
      LET N == Len(files)
          failed == {j \in 1..N : ExtractionFailed(replies[j])}
      IN /\ Len(response.receipts) = N - Cardinality(failed)
         /\ Len(Errs(response)) = Cardinality(failed)
         /\ \A j \in failed :
              /\ \E n \in 1..Len(Errs(response)) : Errs(response)[n].file = files[j]
              /\ \A m \in 1..Len(response.receipts) : response.receipts[m].id # RowId(j)

\* C1 amended: the answer holds exactly N records, one per uploaded file in
\* upload order whether or not its extraction failed, and at most one error
\* descriptor per file, exactly one for each of the k files whose extraction
\* failed, naming that file and the id of its record; so a failed file is both
\* a record and an error descriptor.
C1_Amended ==
    Uploaded =>
      LET N == Len(files)
          errs == Errs(response)
      IN /\ Len(response.receipts) = N
         /\ \A j \in 1..N : /\ response.receipts[j].id = RowId(j)
                            /\ response.receipts[j].file = files[j]
         /\ \A j \in 1..N : /\ Cardinality(ErrorsFor(errs, j)) <= 1
                            /\ ExtractionFailed(replies[j]) =>
                                 Cardinality(ErrorsFor(errs, j)) = 1
         /\ \A n \in 1..Len(errs) :
              /\ errs[n].receipt_id \in {RowId(j) : j \in 1..N}
              /\ errs[n].file = files[errs[n].receipt_id - rows_before]

\* three files, only the second extraction fails: three records, one descriptor
C1_Witness ==
    /\ Uploaded
    /\ Len(files) = 3
    /\ ~ExtractionFailed(replies[1])
    /\ ExtractionFailed(replies[2])
    /\ ~ExtractionFailed(replies[3])
    /\ Len(response.receipts) = 3
    /\ Len(Errs(response)) = 1
    /\ Errs(response)[1].file = files[2]

---------------------------------------------------------------------------
(* C2 *)

---------------------------------------------------------------------------
(* C3 *)

\* the claim's function: PHP for null or empty, the upper-cased trimmed value
\* when it is one of the five codes, PHP otherwise
ClaimCurrency(c) ==
    IF c = None \/ c = Str(<<>>) THEN Str(PHP)
    ELSE IF Strip(Upper(c.str)) \in {PHP, USD, EUR, JPY, GBP} THEN Str(Strip(Upper(c.str)))
    ELSE Str(PHP)

\* C3: normalize_currency returns PHP for a null or empty value, the
\* upper-cased trimmed value when that is one of PHP, USD, EUR, JPY, GBP, and
\* PHP for anything else; the result is always one of the five codes.
C3_CurrencyTotal ==
    pc = "returned" =>
      /\ cur_out = ClaimCurrency(cur_in)
      /\ cur_out \in {Str(PHP), Str(USD), Str(EUR), Str(JPY), Str(GBP)}

\* a code in lower case between whitespace comes back as the code
C3_Witness ==
    /\ pc = "returned"
    /\ cur_in = Str(<<"\t","u","s","d","\n">>)
    /\ cur_out = Str(USD)

---------------------------------------------------------------------------
(* C4 *)

\* C4 as stated: a receipt that an upload created and normalized has a currency
\* among the five codes in every later state, edits through the receipt API
\* included.
C4_Original == \A id \in normalized : receipts_db[id].currency \in AllowedCodes

---------------------------------------------------------------------------
(* C5 *)

\* C5: when the raw tax_amount is null or missing, the receipt of that file has
\* tax_amount 0, in the database and in the answer; and no receipt of an
\* upload, failed or not, has a null tax_amount.
C5_TaxDefault ==
    /\ \A j \in Processed :
         (~ExtractionFailed(replies[j]) /\ Get(RawData(replies[j]), "tax_amount") = None) =>
            /\ receipts_db[RowId(j)].tax_amount = Num(0)
            /\ created_receipts[j].tax_amount = Num(0)
    /\ \A k \in 1..Len(receipts_db) : receipts_db[k].tax_amount # None
    /\ \A k \in 1..Len(created_receipts) : created_receipts[k].tax_amount # None
    /\ Uploaded => \A k \in 1..Len(response.receipts) : response.receipts[k].tax_amount # None

\* one file with the key missing, one with a null, one whose extraction failed
C5_Witness ==
    /\ Uploaded
    /\ \E j \in Processed :
         /\ ~ExtractionFailed(replies[j])
         /\ "tax_amount" \notin DOMAIN RawData(replies[j])
         /\ RowId(j) \in normalized
    /\ \E j \in Processed :
         /\ ~ExtractionFailed(replies[j])
         /\ "tax_amount" \in DOMAIN RawData(replies[j])
         /\ RawData(replies[j]).tax_amount = None
         /\ RowId(j) \in normalized
    /\ \E j \in Processed : ExtractionFailed(replies[j])

---------------------------------------------------------------------------
(* C6 *)

\* C6 as stated: after a successful extraction the item rows stored for the
\* receipt are exactly the raw items with a non-null, non-empty description,
\* in the raw order.
C6_Original ==
    \A j \in Processed :
      ~ExtractionFailed(replies[j]) =>
        LET kept == KeptItems(RawData(replies[j]))
            stored == ItemsOf(items_db, RowId(j))
        IN /\ Len(stored) = Len(kept)
           /\ \A n \in 1..Len(stored) : stored[n].description = kept[n].dict.description

---------------------------------------------------------------------------
(* C7 *)

\* C7 as stated, on the files that were stored without an error: an item keeps
\* its raw quantity, unit_price and line_total whenever they are not null (0
\* included), and gets 1, 0 and 0 only when they are null or missing.
C7_Original ==
    \A j \in Processed :
      (~ExtractionFailed(replies[j]) /\ ErrorsFor(errors, j) = {}) =>
        LET kept == KeptItems(RawData(replies[j]))
            stored == ItemsOf(items_db, RowId(j))
        IN \A n \in 1..Len(stored) :
             n <= Len(kept) =>
               /\ stored[n].quantity =
                    IF Get(kept[n].dict, "quantity") # None
                    THEN Get(kept[n].dict, "quantity") ELSE Num(1)
               /\ stored[n].unit_price =
                    IF Get(kept[n].dict, "unit_price") # None
                    THEN Get(kept[n].dict, "unit_price") ELSE Num(0)
               /\ stored[n].line_total =
                    IF Get(kept[n].dict, "line_total") # None
                    THEN Get(kept[n].dict, "line_total") ELSE Num(0)

---------------------------------------------------------------------------
(* C8 *)

\* the claim's fallback: unset for null, else the ISO date-time parse, else
\* the YYYY-MM-DD parse, else unset
ClaimDate(raw) ==
    IF raw = None THEN None
    ELSE IF IsStr(raw) /\ fromisoformat(raw.str).ok THEN fromisoformat(raw.str)
    ELSE IF IsStr(raw) /\ strptime(raw.str).ok THEN strptime(raw.str)
    ELSE None

\* every raw item is an object
ItemsWellFormed(data) == \A n \in 1..Len(RawItems(data)) : IsDict(RawItems(data)[n])

\* C8 as stated: whatever the raw date is, the receipt's date is the one the
\* ordered fallback gives, and a date that neither parse accepts raises
\* nothing and does not make the file an error.
C8_Original ==
    \A j \in Processed :
      (~ExtractionFailed(replies[j]) /\ ItemsWellFormed(RawData(replies[j]))) =>
         /\ ErrorsFor(errors, j) = {}
         /\ RowId(j) \in normalized
         /\ receipts_db[RowId(j)].date = ClaimDate(Get(RawData(replies[j]), "date"))

---------------------------------------------------------------------------
(* C9 *)

\* C9 as stated: whatever the extractor returned, mapping it raises nothing:
\* the file is stored and is never reported as an error.
C9_Original ==
    \A j \in Processed :
      ~ExtractionFailed(replies[j]) =>
         /\ ErrorsFor(errors, j) = {}
         /\ RowId(j) \in normalized

---------------------------------------------------------------------------
(* C10 *)

\* C10: the row of a file exists before its extraction is attempted and is
\* never removed, so an upload of N files leaves exactly N new rows however
\* many extractions failed; extraction is called exactly once per file, in
\* upload order; and every error descriptor carries the id of the row created
\* for that file in this request.
C10_RowPerFile ==
    /\ Len(receipts_db) >= rows_before
    /\ pc = "try" =>
         /\ Len(receipts_db) = RowId(idx)
         /\ receipts_db[RowId(idx)].file = files[idx]
         /\ Len(call_log) = idx - 1
    /\ call_log = [j \in Processed |-> RowId(j)]
    /\ \A j \in Processed : receipts_db[RowId(j)].file = files[j]
    /\ (pc = "responded" /\ files # <<>>) =>
         /\ Len(receipts_db) = rows_before + Len(files)
         /\ Len(call_log) = Len(files)
    /\ \A n \in 1..Len(errors) :
         /\ errors[n].receipt_id \in {RowId(j) : j \in Processed}
         /\ errors[n].file = files[errors[n].receipt_id - rows_before]
         /\ \A m \in 1..Len(errors) : errors[m].receipt_id = errors[n].receipt_id => m = n

\* a second upload, of two files, both failed, on top of an earlier row
C10_Witness ==
    /\ Uploaded
    /\ rows_before = 1
    /\ Len(files) = 2
    /\ Len(receipts_db) = 3
    /\ Len(errors) = 2
    /\ errors[1].receipt_id = 2
    /\ errors[2].receipt_id = 3

====
